---------------------------- MODULE Spec2Model ----------------------------
(***************************************************************************)
(* A model of py-crypttools' Vigenere cryptanalysis engine (src/vig.py).   *)
(*                                                                         *)
(* Characters are modelled by their code points (Python's ord), strings    *)
(* by sequences of code points, so that chr/ord arithmetic, upper() and    *)
(* lower() are computed as the code computes them.                         *)
(*                                                                         *)
(* Four specifications share the variables:                                *)
(*   SpecDrift one Vigkey driven through nextChar past the wrap of its     *)
(*            drift;                                                       *)
(*   SpecKey  two Vigkey objects built from the same material and mode,    *)
(*            driven through nextChar, reset and decryptVigCipher;         *)
(*   SpecFn   the module's functions applied to bounded inputs;            *)
(*   Spec     the interactive session vig().                               *)
(***************************************************************************)
EXTENDS Integers, Sequences, FiniteSets, TLC

VARIABLES
    VIGCI,        \* vig(): the ciphertext of the session
    STREAM_MODE,  \* vig(): the mode flag
    VIGKEY,       \* vig(): the current Vigkey (SpecKey: the first stream)
    VIGDIV,       \* vig(): the substring-divided ciphertext
    status,       \* vig(): "running", "exited", or the exception that ended it
    out,          \* the last thing printed (vig) or returned (SpecKey)
    key2,         \* SpecKey: the second stream
    emitted,      \* SpecKey: <<e1, e2>>, symbols each stream emitted since its last reset
    before,       \* SpecKey: <<b1, b2>>, symbols each stream emitted before its last reset (capped)
    call          \* SpecFn: the last function call, its arguments and its outcome

vars == <<VIGCI, STREAM_MODE, VIGKEY, VIGDIV, status, out, key2, emitted, before, call>>

-----------------------------------------------------------------------------
(* Bounds of the model *)

MaxKeyLen == 2      \* longest key material
MaxCalls == 27      \* SpecDrift: most symbols the stream emits between two resets
MaxEmit == 4        \* SpecKey: most symbols a stream emits between two resets
MaxBefore == 2      \* cap of the pre-reset emission counter
MaxText == 3        \* longest text handed to a function
MaxSubs == 2        \* longest list of substrings handed to a function

-----------------------------------------------------------------------------
(* Characters *)

\* str.upper() on one ASCII character ("a" is 97, "z" is 122)
upper(c) == IF c >= 97 /\ c <= 122 THEN c - 32 ELSE c

\* str.lower() on one ASCII character ("A" is 65, "Z" is 90)
lower(c) == IF c >= 65 /\ c <= 90 THEN c + 32 ELSE c

\* string.ascii_uppercase
ascii_uppercase == [i \in 1..26 |-> 64 + i]

\* All sequences over S of length lo..hi
SeqsOf(S, lo, hi) == UNION {[1..n -> S] : n \in lo..hi}

-----------------------------------------------------------------------------
(* class Vigkey *)

\* Vigkey.__init__: self.m and self.ordOffset
VigkeyM == 26
ordOffset == 65

\* Vigkey.__init__ on a key that passes its checks (len(key) >= 1)
Vigkey(key, isStream) ==
    [key |-> [i \in 1..Len(key) |-> upper(key[i])],
     isStream |-> isStream,
     keyPointer |-> 0,
     keyIncrement |-> 0]

\* Vigkey.__init__ raises ValueError on an empty key
VigkeyRaises(key) == Len(key) < 1

\* A plausible slip: the drift is bumped on every call, not only on a wrap
nextCharDriftEveryCall(k) ==
    LET np == (k.keyPointer + 1) % Len(k.key)
    IN [char |-> ((k.key[k.keyPointer + 1] + k.keyIncrement - ordOffset) % VigkeyM) + ordOffset,
        key  |-> [k EXCEPT !.keyPointer = np,
                           !.keyIncrement = IF k.isStream
                                            THEN (k.keyIncrement + 1) % VigkeyM
                                            ELSE k.keyIncrement]]

\* Vigkey.nextChar: the returned character and the object afterwards
nextChar(k) ==
    LET np == (k.keyPointer + 1) % Len(k.key)
    IN [char |-> ((k.key[k.keyPointer + 1] + k.keyIncrement - ordOffset) % VigkeyM) + ordOffset,
        key  |-> [k EXCEPT !.keyPointer = np,
                           !.keyIncrement = IF np = 0 /\ k.isStream
                                            THEN (k.keyIncrement + 1) % VigkeyM
                                            ELSE k.keyIncrement]]

\* A plausible slip: reset forgets the stream increment
resetPointerOnly(k) == [k EXCEPT !.keyPointer = 0]

\* Vigkey.reset
reset(k) == [k EXCEPT !.keyPointer = 0, !.keyIncrement = 0]

-----------------------------------------------------------------------------
(* decryptVigCipher *)

\* The loop of decryptVigCipher over ctext[i..]: the text built and the key afterwards
RECURSIVE decryptLoop(_, _, _, _, _)
decryptLoop(k, ctext, m, i, newtext) ==
    IF i > Len(ctext) THEN [text |-> newtext, key |-> k]
    ELSE LET nc == nextChar(k)
         IN decryptLoop(nc.key, ctext, m, i + 1,
                        Append(newtext, ((ctext[i] - nc.char) % m) + 97))

\* A plausible slip: the function resets the key before it returns
decryptVigCipherResetting(k, ctext, m) ==
    IF Len(ctext) < 1
    THEN [raised |-> "ValueError", text |-> <<>>, key |-> k]
    ELSE LET r == decryptLoop(k, ctext, m, 1, <<>>)
         IN [raised |-> "none", text |-> r.text, key |-> reset(r.key)]

\* A plausible slip: the plaintext is mapped to the upper-case alphabet
decryptVigCipherUpper(k, ctext, m) ==
    IF Len(ctext) < 1
    THEN [raised |-> "ValueError", text |-> <<>>, key |-> k]
    ELSE LET r == decryptLoop(k, ctext, m, 1, <<>>)
         IN [raised |-> "none", text |-> [i \in 1..Len(r.text) |-> r.text[i] - 32], key |-> r.key]

\* decryptVigCipher(key, ctext, m): what it raises, what it returns, and the key afterwards
decryptVigCipher(k, ctext, m) ==
    IF Len(ctext) < 1
    THEN [raised |-> "ValueError", text |-> <<>>, key |-> k]
    ELSE LET r == decryptLoop(k, ctext, m, 1, <<>>)
         IN [raised |-> "none", text |-> r.text, key |-> r.key]

\* The key symbols decryptVigCipher draws from k for a text of n symbols
RECURSIVE drawn(_, _)
drawn(k, n) ==
    IF n = 0 THEN <<>>
    ELSE LET nc == nextChar(k) IN <<nc.char>> \o drawn(nc.key, n - 1)

-----------------------------------------------------------------------------
(* divideIntoSubstrings *)

\* The loop of divideIntoSubstrings from ctext[i] on, with the round-robin index k
\* and the running offset
RECURSIVE divideLoop(_, _, _, _, _, _, _, _)
divideLoop(ctext, n, streamMode, m, i, substrings, k, offset) ==
    IF i > Len(ctext) THEN substrings
    ELSE LET k1 == (k + 1) % n
         IN divideLoop(ctext, n, streamMode, m, i + 1,
                       [substrings EXCEPT ![k + 1] =
                            Append(@, (((ctext[i] - 65) - offset) % m) + 65)],
                       k1,
                       IF streamMode /\ k1 = 0 THEN (offset + 1) % m ELSE offset)

\* A plausible slip: the offset runs in classic mode too
divideIntoSubstringsAlwaysOffset(ctext, n, streamMode, m) ==
    IF n < 1 \/ m < 1 THEN [raised |-> "ValueError", value |-> <<>>]
    ELSE IF Len(ctext) < n THEN [raised |-> "ValueError", value |-> <<>>]
    ELSE [raised |-> "none",
          value |-> divideLoop(ctext, n, TRUE, m, 1, [x \in 1..n |-> <<>>], 0, 0)]

\* A plausible slip: the offset never runs
divideIntoSubstringsNoOffset(ctext, n, streamMode, m) ==
    IF n < 1 \/ m < 1 THEN [raised |-> "ValueError", value |-> <<>>]
    ELSE IF Len(ctext) < n THEN [raised |-> "ValueError", value |-> <<>>]
    ELSE [raised |-> "none",
          value |-> divideLoop(ctext, n, FALSE, m, 1, [x \in 1..n |-> <<>>], 0, 0)]

\* divideIntoSubstrings(ctext, n, STREAM_MODE, m): what it raises and what it returns
divideIntoSubstrings(ctext, n, streamMode, m) ==
    IF n < 1 \/ m < 1 THEN [raised |-> "ValueError", value |-> <<>>]
    ELSE IF Len(ctext) < n THEN [raised |-> "ValueError", value |-> <<>>]
    ELSE [raised |-> "none",
          value |-> divideLoop(ctext, n, streamMode, m, 1, [x \in 1..n |-> <<>>], 0, 0)]

-----------------------------------------------------------------------------
(* findIndicesOfCoincidence *)

\* The number of symbols of substring whose ring value is i (the loop of lines 204-206)
RECURSIVE countRing(_, _, _, _)
countRing(substring, m, i, p) ==
    IF p > Len(substring) THEN 0
    ELSE (IF i = ((substring[p] - 65) % m) THEN 1 ELSE 0) + countRing(substring, m, i, p + 1)

\* The sum of fi * (fi - 1) over the ring values i..m-1 (the loop of lines 202-207)
RECURSIVE sumIncidences(_, _, _)
sumIncidences(substring, m, i) ==
    IF i >= m THEN 0
    ELSE LET fi == countRing(substring, m, i, 1)
         IN (fi * (fi - 1)) + sumIncidences(substring, m, i + 1)

\* A plausible slip: fi * fi is summed
RECURSIVE sumSquares(_, _, _)
sumSquares(substring, m, i) ==
    IF i >= m THEN 0
    ELSE LET fi == countRing(substring, m, i, 1)
         IN (fi * fi) + sumSquares(substring, m, i + 1)

indexOfSquares(substring, m) ==
    [num |-> sumSquares(substring, m, 0), den |-> Len(substring) * (Len(substring) - 1)]

\* The index of one substring before it is appended: Python's true division
\* index / (len * (len - 1)), kept as the fraction num/den; den = 0 is the
\* division that raises ZeroDivisionError
indexOf(substring, m) ==
    [num |-> sumIncidences(substring, m, 0), den |-> Len(substring) * (Len(substring) - 1)]

\* findIndicesOfCoincidence(substrings, m): what it raises and what it returns
findIndicesOfCoincidence(substrings, m) ==
    IF m < 1 THEN [raised |-> "ValueError", value |-> <<>>]
    ELSE IF Len(substrings) < 1 THEN [raised |-> "ValueError", value |-> <<>>]
    ELSE IF \E i \in 1..Len(substrings) : indexOf(substrings[i], m).den = 0
         THEN [raised |-> "ZeroDivisionError", value |-> <<>>]
         ELSE [raised |-> "none",
               value |-> [i \in 1..Len(substrings) |-> indexOf(substrings[i], m)]]

-----------------------------------------------------------------------------
(* findPossibleKeys *)

\* vig(): FREQTABLE, the English letter frequencies, in thousandths
FREQTABLE ==
    << 82, 15, 28, 43, 127, 22, 20, 61,
       70, 2, 8, 40, 24, 67, 75, 19,
       1, 60, 63, 91, 28, 10, 23, 1,
       20, 1 >>

\* fgi, the number of symbols of substring that shift g maps to letter i (lines 277-280)
countShifted(substring, m, g, i) ==
    Cardinality({p \in 1..Len(substring) : i = ((substring[p] - g - 65) % m)})

\* mg * 1000 * len(substring): the sum of FREQTABLE[i] * fgi over i = from..m-1
\* (lines 275-281)
RECURSIVE mgSum(_, _, _, _, _)
mgSum(substring, freq, m, g, i) ==
    IF i >= m THEN 0
    ELSE (freq[i + 1] * countShifted(substring, m, g, i)) + mgSum(substring, freq, m, g, i + 1)

\* mg > 0.06 and mg < 0.07
inBand(substring, freq, m, g) ==
    LET t == mgSum(substring, freq, m, g, 0)
    IN t > 60 * Len(substring) /\ t < 70 * Len(substring)

\* The floating-point sum mg is modelled by the exact sum. The two agree unless
\* the exact value lies on an edge of the band and the substring is longer than
\* two symbols (then the rounding of the divisions by len(substring) decides);
\* such substrings are kept out of the inputs.
floatSensitive(substring, freq, m) ==
    /\ Len(substring) > 2
    /\ \E g \in 0..(m - 1) :
          mgSum(substring, freq, m, g, 0) \in {60 * Len(substring), 70 * Len(substring)}

\* The elements of q at the indices idx, in increasing order of index
pick(q, idx) ==
    IF idx = 1..Len(q) THEN q
    ELSE [k \in 1..Cardinality(idx) |->
             q[CHOOSE i \in idx : Cardinality({j \in idx : j <= i}) = k]]

\* The list a loop "for x in q: if x not in list: list.append(x)" builds from an
\* empty list: the first occurrences of the elements of q, in order
appendedIfNew(q) ==
    pick(q, {i \in 1..Len(q) : \A j \in 1..(i - 1) : q[j] # q[i]})

\* kLetters of one substring (lines 273-286): the letters chr(g + 65) of the
\* shifts g = 0..m-1 that fall in the band, in order, or the whole upper-case
\* alphabet when none does
kLettersOf(substring, freq, m) ==
    LET acc == pick([x \in 1..m |-> x + 64],
                    {x \in 1..m : inBand(substring, freq, m, x - 1)})
    IN IF Len(acc) = 0 THEN ascii_uppercase ELSE acc

\* keyLetters after the loops of lines 271-288: for each substring, and
\* len(substrings) times over, its kLetters is appended unless keyLetters already
\* holds an equal list
collectKeyLetters(substrings, freq, m) ==
    LET n == Len(substrings)
        letters == [i \in 1..n |-> kLettersOf(substrings[i], freq, m)]
    IN appendedIfNew([x \in 1..(n * n) |-> letters[((x - 1) \div n) + 1]])

\* findPossibleKeys.buildKeys (lines 250-269): each letter of keyLetters[0] is
\* composed with each key built from keyLetters[1:], and appended unless
\* keyPossibilities already holds it
RECURSIVE buildKeys(_)
buildKeys(keyLetters) ==
    IF Len(keyLetters) = 1
    THEN [l \in 1..Len(keyLetters[1]) |-> <<keyLetters[1][l]>>]
    ELSE LET first == keyLetters[1]
             nextChars == buildKeys(Tail(keyLetters))
             r == Len(nextChars)
         IN appendedIfNew([x \in 1..(Len(first) * r) |->
                              <<first[((x - 1) \div r) + 1]>> \o nextChars[((x - 1) % r) + 1]])

\* findPossibleKeys(substrings, FREQTABLE, m): what it raises and what it returns
findPossibleKeys(substrings, freq, m) ==
    IF m < 1 THEN [raised |-> "ValueError", value |-> <<>>]
    ELSE IF Len(substrings) < 1 THEN [raised |-> "ValueError", value |-> <<>>]
    ELSE IF Len(freq) # m THEN [raised |-> "ValueError", value |-> <<>>]
    ELSE IF \E i \in 1..Len(substrings) : Len(substrings[i]) = 0
         THEN [raised |-> "ZeroDivisionError", value |-> <<>>]
         ELSE [raised |-> "none",
               value |-> appendedIfNew(buildKeys(collectKeyLetters(substrings, freq, m)))]

-----------------------------------------------------------------------------
(* SpecDrift and SpecKey: Vigkey objects driven by a caller *)

\* Key material the caller builds keys from: "A", "Z" and a lower-case "b"
KeyChars == {65, 90, 98}
KeyMaterials == SeqsOf(KeyChars, 1, MaxKeyLen)

\* Ciphertexts the caller decrypts in SpecKey: "B", "YA", "CXM"
DecTexts == {<<66>>, <<89, 65>>, <<67, 88, 77>>}

Stream(i) == IF i = 1 THEN VIGKEY ELSE key2

Min(a, b) == IF a < b THEN a ELSE b

NoCall == [fn |-> "none"]

InitKey ==
    /\ \E material \in KeyMaterials, isStream \in BOOLEAN :
          /\ VIGKEY = Vigkey(material, isStream)
          /\ key2 = Vigkey(material, isStream)
          /\ STREAM_MODE = isStream
    /\ emitted = <<<<>>, <<>>>>
    /\ before = <<0, 0>>
    /\ out = [op |-> "new"]
    /\ VIGCI = <<>>
    /\ VIGDIV = <<>>
    /\ status = "running"
    /\ call = NoCall

\* The caller invokes stream i's nextChar (at most bound emissions between resets)
KeyNextChar(i, bound) ==
    /\ Len(emitted[i]) < bound
    /\ LET nc == nextChar(Stream(i))
       IN /\ VIGKEY' = IF i = 1 THEN nc.key ELSE VIGKEY
          /\ key2' = IF i = 2 THEN nc.key ELSE key2
          /\ emitted' = [emitted EXCEPT ![i] = Append(@, nc.char)]
          /\ out' = [op |-> "nextChar", stream |-> i, char |-> nc.char]
    /\ UNCHANGED <<VIGCI, STREAM_MODE, VIGDIV, status, before, call>>

\* The caller invokes stream i's reset
KeyReset(i) ==
    /\ VIGKEY' = IF i = 1 THEN reset(VIGKEY) ELSE VIGKEY
    /\ key2' = IF i = 2 THEN reset(key2) ELSE key2
    /\ emitted' = [emitted EXCEPT ![i] = <<>>]
    /\ before' = [before EXCEPT ![i] = Min(Len(emitted[i]), MaxBefore)]
    /\ out' = [op |-> "reset", stream |-> i]
    /\ UNCHANGED <<VIGCI, STREAM_MODE, VIGDIV, status, call>>

\* The caller hands stream i and a ciphertext to decryptVigCipher
KeyDecrypt(i, ctext) ==
    /\ Len(emitted[i]) + Len(ctext) <= MaxEmit
    /\ LET r == decryptVigCipher(Stream(i), ctext, 26)
       IN /\ VIGKEY' = IF i = 1 THEN r.key ELSE VIGKEY
          /\ key2' = IF i = 2 THEN r.key ELSE key2
          /\ emitted' = [emitted EXCEPT ![i] = @ \o drawn(Stream(i), Len(ctext))]
          /\ out' = [op |-> "decrypt", stream |-> i, ctext |-> ctext, text |-> r.text]
    /\ UNCHANGED <<VIGCI, STREAM_MODE, VIGDIV, status, before, call>>

NextDrift ==
    \/ KeyNextChar(1, MaxCalls)
    \/ KeyReset(1)

SpecDrift == InitKey /\ [][NextDrift]_vars

NextKey ==
    \/ \E i \in 1..2 : KeyNextChar(i, MaxEmit)
    \/ \E i \in 1..2 : KeyReset(i)
    \/ \E ctext \in DecTexts : KeyDecrypt(1, ctext)

SpecKey == InitKey /\ [][NextKey]_vars

-----------------------------------------------------------------------------
(* SpecFn: the module's functions applied to bounded inputs *)

\* Plaintext symbols: "a", "b", "m", "z"
PlainChars == {97, 98, 109, 122}
PlainTexts == SeqsOf(PlainChars, 1, MaxText)

\* Classic or stream encryption as the header comment of vig.py and the
\* round-trip property describe it: cipher value = (plain value + key value) mod 26,
\* the key values drawn from the key stream k
RECURSIVE encryptLoop(_, _, _, _)
encryptLoop(k, ptext, i, ctext) ==
    IF i > Len(ptext) THEN ctext
    ELSE LET nc == nextChar(k)
         IN encryptLoop(nc.key, ptext, i + 1,
                        Append(ctext, (((ptext[i] - 97) + (nc.char - 65)) % 26) + 65))

Encrypt(k, ptext) == encryptLoop(k, ptext, 1, <<>>)

InitFn ==
    /\ call = NoCall
    /\ VIGKEY = Vigkey(<<65>>, FALSE)
    /\ key2 = Vigkey(<<65>>, FALSE)
    /\ STREAM_MODE = FALSE
    /\ emitted = <<<<>>, <<>>>>
    /\ before = <<0, 0>>
    /\ out = [op |-> "new"]
    /\ VIGCI = <<>>
    /\ VIGDIV = <<>>
    /\ status = "running"

FnFrame == UNCHANGED <<VIGCI, STREAM_MODE, VIGKEY, VIGDIV, status, out, key2, emitted, before>>

\* Encrypt ptext under a reset classic key built from material, then decrypt the
\* result with an identically built and reset key
CallRoundTrip(ptext, material) ==
    /\ LET ctext == Encrypt(reset(Vigkey(material, FALSE)), ptext)
       IN call' = [fn |-> "roundtrip", ptext |-> ptext, material |-> material,
                   ctext |-> ctext,
                   result |-> decryptVigCipher(reset(Vigkey(material, FALSE)), ctext, 26)]
    /\ FnFrame

\* Ciphertext symbols handed to divideIntoSubstrings: "A", "B", "Z" and the digit "1"
DivChars == {65, 66, 90, 49}

\* The alphabet of the ring Zm: the m symbols from "A" on
Alphabet(m) == {65 + v : v \in 0..(m - 1)}

\* The ring sizes divideIntoSubstrings is called with: a ring of two symbols, in
\* which the offset wraps within a short text, and the default
DivModuli == {2, 26}

\* "ABCDEFGHI"
TextAtoI == [i \in 1..9 |-> 64 + i]

DivTexts(m) ==
    SeqsOf(IF m = 26 THEN DivChars ELSE DivChars \cap Alphabet(m), 0, MaxText)
    \cup (IF m = 26 THEN {TextAtoI} ELSE {})

CallDivide(ctext, n, streamMode, m) ==
    /\ call' = [fn |-> "divide", ctext |-> ctext, n |-> n, streamMode |-> streamMode,
                m |-> m, result |-> divideIntoSubstrings(ctext, n, streamMode, m)]
    /\ FnFrame

\* Substrings handed to findIndicesOfCoincidence:
\* "", "A", "AA", "AB", "AAA", "AAB", "ABC", "ACA", "ABAB"
IocTexts ==
    {<<>>, <<65>>, <<65, 65>>, <<65, 66>>, <<65, 65, 65>>, <<65, 65, 66>>,
     <<65, 66, 67>>, <<65, 67, 65>>, <<65, 66, 65, 66>>}

CallIndices(substrings, m) ==
    /\ call' = [fn |-> "indices", substrings |-> substrings, m |-> m,
                result |-> findIndicesOfCoincidence(substrings, m)]
    /\ FnFrame

\* Substrings handed to findPossibleKeys: "H", "HH", "A", "AB", "ZB", "AC"
FpkTexts == {<<72>>, <<72, 72>>, <<65>>, <<65, 66>>, <<90, 66>>, <<65, 67>>}

CallPossibleKeys(substrings) ==
    /\ \A i \in 1..Len(substrings) : ~floatSensitive(substrings[i], FREQTABLE, 26)
    /\ call' = [fn |-> "possible", substrings |-> substrings,
                result |-> findPossibleKeys(substrings, FREQTABLE, 26)]
    /\ FnFrame

\* Ciphertext symbols handed to decryptVigCipher: "A", "Z", the digit "1", a lower-case "a"
DecChars == {65, 90, 49, 97}

CallDecrypt(material, isStream, ctext) ==
    /\ call' = [fn |-> "decrypt", material |-> material, isStream |-> isStream,
                ctext |-> ctext,
                result |-> decryptVigCipher(Vigkey(material, isStream), ctext, 26)]
    /\ FnFrame

\* One function is called, once, on inputs drawn from the bounded sets
\* Plaintexts long enough for the drift of a key of L symbols to wrap: 26 * L + 2 symbols
LongPlain(len) == [i \in 1..len |-> 97 + ((7 * i) % 26)]
DedriftTexts == PlainTexts \cup {LongPlain((VigkeyM * L) + 2) : L \in 1..MaxKeyLen}

\* Encrypt ptext under the key material in stream mode and in classic mode, and
\* divide each ciphertext into len(material) substrings in its own mode
CallDedrift(ptext, material) ==
    /\ LET n == Len(material)
           Cs == Encrypt(Vigkey(material, TRUE), ptext)
           Cc == Encrypt(Vigkey(material, FALSE), ptext)
       IN call' = [fn |-> "dedrift", ptext |-> ptext, material |-> material,
                   Cs |-> Cs, Cc |-> Cc,
                   stream |-> divideIntoSubstrings(Cs, n, TRUE, 26),
                   classic |-> divideIntoSubstrings(Cc, n, FALSE, 26)]
    /\ FnFrame

\* s[:keylength//2] != s[keylength//2:]
keyFilter(s, keylength) ==
    SubSeq(s, 1, keylength \div 2) # SubSeq(s, (keylength \div 2) + 1, Len(s))

\* Candidate keys of option 8, of 0 to 3 symbols over "A" and "B"
FilterKeys == SeqsOf({65, 66}, 0, 3)

\* The condition of the keyset generator applied to one element s of the product
\* of repeat = len(s)
CallKeyFilter(s) ==
    /\ call' = [fn |-> "keyFilter", s |-> s, keylength |-> Len(s),
                kept |-> keyFilter(s, Len(s))]
    /\ FnFrame

NextFn ==
    \/ /\ call.fn = "none"
       /\ \E ptext \in PlainTexts, material \in KeyMaterials : CallRoundTrip(ptext, material)
    \/ /\ call.fn = "none"
       /\ \E m \in DivModuli, n \in 0..(MaxText + 1), streamMode \in BOOLEAN :
             \E ctext \in DivTexts(m) : CallDivide(ctext, n, streamMode, m)
    \/ /\ call.fn = "none"
       /\ \E m \in DivModuli, substrings \in SeqsOf(IocTexts, 0, MaxSubs) :
             CallIndices(substrings, m)
    \/ /\ call.fn = "none"
       /\ \E substrings \in SeqsOf(FpkTexts, 0, MaxSubs) : CallPossibleKeys(substrings)
    \/ /\ call.fn = "none"
       /\ \E material \in KeyMaterials, isStream \in BOOLEAN,
             ctext \in SeqsOf(DecChars, 0, MaxText) :
             CallDecrypt(material, isStream, ctext)
    \/ /\ call.fn = "none"
       /\ \E material \in KeyMaterials, ptext \in DedriftTexts : CallDedrift(ptext, material)
    \/ /\ call.fn = "none"
       /\ \E s \in FilterKeys : CallKeyFilter(s)

SpecFn == InitFn /\ [][NextFn]_vars

-----------------------------------------------------------------------------
(* vig(): the interactive session *)

\* str(vkey): the mode and the key symbols
strOf(k) == [isStream |-> k.isStream, key |-> k.key]

\* keyword in decryption: Python's substring test
isIn(keyword, decryption) ==
    \E s \in 0..(Len(decryption) - Len(keyword)) :
        \A j \in 1..Len(keyword) : decryption[s + j] = keyword[j]

\* A plausible slip: one keyword found is enough
anyin(keywords, decryption) ==
    \E w \in 1..Len(keywords) : isIn(keywords[w], decryption)

\* allin after the loop over the keywords (lines 384-388)
allin(keywords, decryption) ==
    \A w \in 1..Len(keywords) : isIn(keywords[w], decryption)

\* itertools.product(string.ascii_uppercase, repeat=keylength), in its order
keyProduct(keylength) ==
    [x \in 1..(26 ^ keylength) |->
        [p \in 1..keylength |->
            ascii_uppercase[(((x - 1) \div (26 ^ (keylength - p))) % 26) + 1]]]

\* keyset (lines 373-379)
keyset(keylength) == SelectSeq(keyProduct(keylength), LAMBDA s : keyFilter(s, keylength))

\* One pass of the loop over keyset (lines 381-389): the key built, the
\* decryption, the key after its reset, and allin
tryKey(key, streamMode, ctext, keywords) ==
    LET vkey == Vigkey(key, streamMode)
        r == decryptVigCipher(vkey, ctext, 26)
    IN [vkey |-> reset(r.key), decryption |-> r.text, allin |-> allin(keywords, r.text)]

\* What option 8 prints: str(vkey) and the decryption of every key that passes
bruteforce(keylength, keywords, ctext, streamMode) ==
    LET ks == keyset(keylength)
        tried == [i \in 1..Len(ks) |-> tryKey(ks[i], streamMode, ctext, keywords)]
        passed == SelectSeq(tried, LAMBDA t : t.allin)
    IN [i \in 1..Len(passed) |->
           [key |-> strOf(passed[i].vkey), decryption |-> passed[i].decryption]]

\* The ciphertexts of a session: "HIH", "A"
SessionTexts == {<<72, 73, 72>>, <<65>>}

\* The keys typed at option 4: nothing, "a", "BZ"
SessionKeys == {<<>>, <<97>>, <<66, 90>>}

\* The keyword lines typed at option 8, split: "HI", "h i"
SessionKeywords == {<< <<72, 73>> >>, << <<104>>, <<105>> >>}

\* The key lengths typed at option 8. Every length costs 26^length decryptions
\* per selection of the option, which is what keeps the set at 2.
BruteLengths == {-1, 0, 1, 2}

\* "VIGENERE"
VIGENERE == <<86, 73, 71, 69, 78, 69, 82, 69>>

Init ==
    /\ VIGCI \in SessionTexts
    /\ STREAM_MODE \in BOOLEAN
    /\ VIGKEY = Vigkey(VIGENERE, STREAM_MODE)
    /\ VIGDIV = divideIntoSubstrings(VIGCI, 1, STREAM_MODE, 26).value
    /\ status = "running"
    /\ out = [op |-> "start"]
    /\ key2 = Vigkey(VIGENERE, STREAM_MODE)
    /\ emitted = <<<<>>, <<>>>>
    /\ before = <<0, 0>>
    /\ call = NoCall

SessionFrame == UNCHANGED <<VIGCI, key2, emitted, before, call>>

\* Option 0
Exit ==
    /\ status = "running"
    /\ status' = "exited"
    /\ UNCHANGED <<STREAM_MODE, VIGKEY, VIGDIV, out>>
    /\ SessionFrame

\* Option 1
ToggleMode ==
    /\ status = "running"
    /\ STREAM_MODE' = ~STREAM_MODE
    /\ VIGKEY' = Vigkey(VIGKEY.key, ~STREAM_MODE)
    /\ out' = [op |-> "mode", stream |-> ~STREAM_MODE]
    /\ UNCHANGED <<VIGDIV, status>>
    /\ SessionFrame

\* Option 2
PrintDecryption ==
    /\ status = "running"
    /\ LET r == decryptVigCipher(VIGKEY, VIGCI, 26)
       IN /\ out' = [op |-> "decryption", text |-> r.text]
          /\ VIGKEY' = reset(r.key)
    /\ UNCHANGED <<STREAM_MODE, VIGDIV, status>>
    /\ SessionFrame

\* Option 3
PrintKey ==
    /\ status = "running"
    /\ out' = [op |-> "key", key |-> strOf(VIGKEY)]
    /\ UNCHANGED <<STREAM_MODE, VIGKEY, VIGDIV, status>>
    /\ SessionFrame

\* Option 4
ModifyKey(typed) ==
    /\ status = "running"
    /\ LET key == [i \in 1..Len(typed) |-> upper(typed[i])]
       IN IF VigkeyRaises(key)
          THEN /\ status' = "ValueError"
               /\ UNCHANGED <<VIGKEY, out>>
          ELSE /\ VIGKEY' = Vigkey(key, STREAM_MODE)
               /\ out' = [op |-> "modify"]
               /\ UNCHANGED status
    /\ UNCHANGED <<STREAM_MODE, VIGDIV>>
    /\ SessionFrame

\* Option 5
Divide(typed) ==
    /\ status = "running"
    /\ LET n == IF typed < 1 THEN 1 ELSE typed
           r == divideIntoSubstrings(VIGCI, n, STREAM_MODE, 26)
       IN IF r.raised # "none"
          THEN /\ status' = r.raised
               /\ UNCHANGED <<VIGDIV, out>>
          ELSE /\ VIGDIV' = r.value
               /\ out' = [op |-> "divide", divisions |-> r.value]
               /\ UNCHANGED status
    /\ UNCHANGED <<STREAM_MODE, VIGKEY>>
    /\ SessionFrame

\* Option 6
PrintIndices ==
    /\ status = "running"
    /\ LET r == findIndicesOfCoincidence(VIGDIV, 26)
       IN IF r.raised # "none"
          THEN /\ status' = r.raised
               /\ UNCHANGED out
          ELSE /\ out' = [op |-> "indices", n |-> Len(VIGDIV), indices |-> r.value]
               /\ UNCHANGED status
    /\ UNCHANGED <<STREAM_MODE, VIGKEY, VIGDIV>>
    /\ SessionFrame

\* Option 7
PrintPossibleKeys ==
    /\ status = "running"
    /\ \A i \in 1..Len(VIGDIV) : ~floatSensitive(VIGDIV[i], FREQTABLE, 26)
    /\ LET r == findPossibleKeys(VIGDIV, FREQTABLE, 26)
       IN IF r.raised # "none"
          THEN /\ status' = r.raised
               /\ UNCHANGED out
          ELSE /\ out' = [op |-> "possible", keys |-> r.value]
               /\ UNCHANGED status
    /\ UNCHANGED <<STREAM_MODE, VIGKEY, VIGDIV>>
    /\ SessionFrame

\* Option 8
Bruteforce(keylength, typed) ==
    /\ status = "running"
    /\ LET keywords == [w \in 1..Len(typed) |-> [i \in 1..Len(typed[w]) |-> lower(typed[w][i])]]
       IN IF keylength < 0
          THEN /\ status' = "ValueError"
               /\ UNCHANGED out
          ELSE /\ out' = [op |-> "bruteforce", keylength |-> keylength, keywords |-> keywords,
                          found |-> bruteforce(keylength, keywords, VIGCI, STREAM_MODE)]
               /\ UNCHANGED status
    /\ UNCHANGED <<STREAM_MODE, VIGKEY, VIGDIV>>
    /\ SessionFrame

\* Options 5 and 8 when what is typed for the number is not one: int() raises
NotANumber ==
    /\ status = "running"
    /\ status' = "ValueError"
    /\ UNCHANGED <<STREAM_MODE, VIGKEY, VIGDIV, out>>
    /\ SessionFrame

\* Any other selection
InvalidSelection ==
    /\ status = "running"
    /\ out' = [op |-> "invalid"]
    /\ UNCHANGED <<STREAM_MODE, VIGKEY, VIGDIV, status>>
    /\ SessionFrame

Next ==
    \/ Exit
    \/ ToggleMode
    \/ PrintDecryption
    \/ PrintKey
    \/ \E typed \in SessionKeys : ModifyKey(typed)
    \/ \E typed \in 0..(MaxText + 1) : Divide(typed)
    \/ PrintIndices
    \/ PrintPossibleKeys
    \/ \E keylength \in BruteLengths, typed \in SessionKeywords : Bruteforce(keylength, typed)
    \/ NotANumber
    \/ InvalidSelection

Spec == Init /\ [][Next]_vars

-----------------------------------------------------------------------------
(* Claims *)

\* The ring shift of an upper-case symbol c by r
Shift(c, r) == ((c - 65 + r) % 26) + 65

\* C1: a plaintext over a..z encrypted in classic mode with a reset key stream built
\* from K, then decrypted by decryptVigCipher with an identically reset classic
\* Vigkey built from K, comes back exactly.
C1_RoundTrip ==
    call.fn = "roundtrip" =>
        /\ call.result.raised = "none"
        /\ call.result.text = call.ptext

\* A round trip of a three-symbol plaintext under a two-symbol key where the
\* sum wraps around the ring ("z" under "Z" is "Y")
C1_Witness ==
    /\ call.fn = "roundtrip"
    /\ Len(call.ptext) = 3 /\ Len(call.material) = 2
    /\ call.ptext[1] = 122 /\ call.material[1] = 90 /\ call.ctext[1] = 89
    /\ call.result.text = call.ptext

\* C2: in stream mode, after exactly L*r calls since construction or reset the
\* drift is r mod 26 and the cursor is 0, and call number L*r emits the symbol a
\* classic stream emits there shifted by r; in classic mode the drift stays 0.
C2_StreamDrift ==
    LET L == Len(VIGKEY.key)
        n == Len(emitted[1])
        classic == drawn(Vigkey(VIGKEY.key, FALSE), n)
    IN /\ VIGKEY.isStream =>
            /\ \A r \in 0..n : L * r = n =>
                   VIGKEY.keyIncrement = r % 26 /\ VIGKEY.keyPointer = 0
            /\ \A r \in 0..n : L * r < n =>
                   emitted[1][L * r + 1] = Shift(classic[L * r + 1], r)
       /\ ~VIGKEY.isStream => VIGKEY.keyIncrement = 0

\* A one-symbol stream key that was reset and then emitted 27 symbols: the drift
\* went through 25, wrapped to 0 and is 1 again
C2_Witness ==
    /\ VIGKEY.isStream /\ Len(VIGKEY.key) = 1
    /\ before[1] > 0
    /\ Len(emitted[1]) = 27
    /\ VIGKEY.keyIncrement = 1
    /\ emitted[1][27] = emitted[1][1]
    /\ emitted[1][26] # emitted[1][1]

\* C3: two streams of the same material and mode, reset after different histories
\* and then invoked the same number of times, emit the same symbols; a stream that
\* was just reset is in the state of a freshly constructed one.
C3_DeterminismAfterReset ==
    /\ \A j \in 1..Min(Len(emitted[1]), Len(emitted[2])) : emitted[1][j] = emitted[2][j]
    /\ \A i \in 1..2 : emitted[i] = <<>> =>
           Stream(i) = Vigkey(Stream(i).key, Stream(i).isStream)

\* Both streams were reset after different non-empty histories and have since
\* emitted the same three or more symbols, with the drift at work
C3_Witness ==
    /\ before[1] > 0 /\ before[2] > 0 /\ before[1] # before[2]
    /\ Len(emitted[1]) >= 3 /\ Len(emitted[1]) = Len(emitted[2])
    /\ VIGKEY.isStream /\ VIGKEY.keyIncrement > 0
    /\ emitted[1] = emitted[2]

\* C4: decryptVigCipher on n symbols with a key of length L at cursor c leaves the
\* cursor at (c + n) mod L, the drift advanced by the number of wraps (stream
\* mode), material and mode unchanged; symbol i of the result is decrypted with the
\* key symbol at cursor c + i - 1, so a decryption without a reset starts from the
\* advanced state, and a decryption right after a reset equals that of a fresh key.
C4_DecryptAdvancesKey ==
    [][out'.op = "decrypt" =>
        LET n == Len(out'.ctext)
            L == Len(VIGKEY.key)
            c == VIGKEY.keyPointer
            d == VIGKEY.keyIncrement
            wraps(j) == IF VIGKEY.isStream THEN (c + j) \div L ELSE 0
        IN /\ VIGKEY'.keyPointer = (c + n) % L
           /\ VIGKEY'.keyIncrement = (d + wraps(n)) % 26
           /\ VIGKEY'.key = VIGKEY.key
           /\ VIGKEY'.isStream = VIGKEY.isStream
           /\ Len(out'.text) = n
           /\ \A i \in 1..n :
                  out'.text[i] =
                      ((out'.ctext[i] - Shift(VIGKEY.key[((c + i - 1) % L) + 1], d + wraps(i - 1))) % 26) + 97
           /\ emitted[1] = <<>> =>
                  out'.text = decryptVigCipher(Vigkey(VIGKEY.key, VIGKEY.isStream), out'.ctext, 26).text
    ]_vars

\* A decryption that started from an advanced cursor of a drifting stream key
C4_Witness ==
    /\ out.op = "decrypt"
    /\ Len(emitted[1]) > Len(out.ctext)
    /\ Len(out.ctext) >= 2
    /\ VIGKEY.isStream /\ VIGKEY.keyIncrement >= 1 /\ VIGKEY.keyPointer # 0

\* The sum of the lengths of the strings of a list
RECURSIVE SumLen(_)
SumLen(ss) == IF ss = <<>> THEN 0 ELSE Len(Head(ss)) + SumLen(Tail(ss))

RECURSIVE CrossProduct(_)
CrossProduct(letterLists) ==
    IF Len(letterLists) = 0 THEN << <<>> >>
    ELSE LET first == Head(letterLists)
             rest == CrossProduct(Tail(letterLists))
         IN [x \in 1..(Len(first) * Len(rest)) |->
                <<first[((x - 1) \div Len(rest)) + 1]>> \o rest[((x - 1) % Len(rest)) + 1]]

\* C6: findPossibleKeys returns the cross-product of the accepted letter sets, one
\* set per substring: every key has len(substrings) symbols, the i-th one accepted
\* for substring i, every combination once, first-position-major; also when two
\* positions have the same accepted letter set.
C6_CrossProduct ==
    (call.fn = "possible" /\ call.result.raised = "none") =>
        call.result.value =
            CrossProduct([i \in 1..Len(call.substrings) |->
                             kLettersOf(call.substrings[i], FREQTABLE, 26)])

\* The sum of a sequence of numbers
RECURSIVE SumSeq(_)
SumSeq(q) == IF q = <<>> THEN 0 ELSE Head(q) + SumSeq(Tail(q))

\* The ring value of a symbol
RingValue(c, m) == (c - 65) % m

\* C8: findIndicesOfCoincidence returns one value per substring, in order, each
\* equal to (sum over ring values g of f_g * (f_g - 1)) / (L * (L - 1)); L >= 2
\* identical symbols give exactly 1, pairwise distinct ring values give exactly 0.
C8_Indices ==
    call.fn = "indices" =>
        LET subs == call.substrings
            m == call.m
            v == call.result.value
            f(sub, g) == Cardinality({p \in 1..Len(sub) : RingValue(sub[p], m) = g})
            sigma(sub) == SumSeq([x \in 1..m |-> f(sub, x - 1) * (f(sub, x - 1) - 1)])
        IN /\ (Len(subs) >= 1 /\ \A i \in 1..Len(subs) : Len(subs[i]) >= 2) =>
                  call.result.raised = "none"
           /\ call.result.raised = "none" =>
                /\ Len(v) = Len(subs)
                /\ \A i \in 1..Len(subs) :
                     LET L == Len(subs[i])
                     IN /\ v[i].den # 0
                        /\ v[i].num * (L * (L - 1)) = sigma(subs[i]) * v[i].den
                        /\ (\A p \in 1..L : subs[i][p] = subs[i][1]) => v[i].num = v[i].den
                        /\ (\A p, q \in 1..L :
                               p # q => RingValue(subs[i][p], m) # RingValue(subs[i][q], m))
                           => v[i].num = 0

\* The indices of "AAB", "AAA" and "ABC" over Z26: one third, one and zero
C8_Witness ==
    /\ call.fn = "indices" /\ call.m = 26
    /\ \E a, b \in {<<65, 65, 66>>, <<65, 65, 65>>, <<65, 66, 67>>} :
          /\ a # b
          /\ call.substrings = <<a, b>>
    /\ call.result.raised = "none"
    /\ \A i \in 1..2 :
          /\ call.substrings[i] = <<65, 65, 66>> => call.result.value[i].num * 3 = call.result.value[i].den
          /\ call.substrings[i] = <<65, 65, 65>> => call.result.value[i].num = call.result.value[i].den
          /\ call.substrings[i] = <<65, 66, 67>> => call.result.value[i].num = 0

\* C9: findIndicesOfCoincidence fails with ValueError, the error it raises for an
\* empty list, when the list is empty or any substring is shorter than 2.
C9_ShortSubstringIsValueError ==
    (/\ call.fn = "indices"
     /\ \/ Len(call.substrings) = 0
        \/ \E i \in 1..Len(call.substrings) : Len(call.substrings[i]) < 2) =>
        call.result.raised = "ValueError"

\* C10: decryptVigCipher fails with an InvalidSymbol error when the ciphertext
\* holds a symbol that is not one of the 26 alphabet symbols.
C10_RejectsForeignSymbol ==
    (/\ call.fn = "decrypt"
     /\ \E i \in 1..Len(call.ctext) : call.ctext[i] \notin Alphabet(26)) =>
        call.result.raised = "InvalidSymbol"

\* w occurs in text as a contiguous substring
Occurs(w, text) ==
    \E a \in 1..(Len(text) - Len(w) + 1) : SubSeq(text, a, a + Len(w) - 1) = w

\* C7: option 8 prints a pair (key, decryption) if and only if the key survives
\* the structural filter and every keyword occurs as a contiguous substring of
\* decryptVigCipher applied to the ciphertext with a fresh Vigkey built from the key
\* in the session's mode; the decryption printed is that fresh-state decryption,
\* whatever keys were tried before.
C7_ExhaustiveSearch ==
    out.op = "bruteforce" =>
        LET L == out.keylength
            fresh(key) == decryptVigCipher(Vigkey(key, STREAM_MODE), VIGCI, 26).text
            printed == {out.found[i].key.key : i \in 1..Len(out.found)}
        IN /\ \A key \in [1..L -> Alphabet(26)] :
                key \in printed <=>
                    /\ keyFilter(key, L)
                    /\ \A w \in 1..Len(out.keywords) : Occurs(out.keywords[w], fresh(key))
           /\ \A i \in 1..Len(out.found) :
                /\ out.found[i].decryption = fresh(out.found[i].key.key)
                /\ out.found[i].key.isStream = STREAM_MODE
           /\ \A i, j \in 1..Len(out.found) : i # j => out.found[i].key # out.found[j].key

\* A stream-mode search over the two-symbol keys with two keywords, in a session
\* whose own key was modified, that prints some keys and not all
C7_Witness ==
    /\ out.op = "bruteforce" /\ out.keylength = 2 /\ Len(out.keywords) = 2
    /\ STREAM_MODE /\ VIGKEY.key # VIGENERE
    /\ Len(VIGCI) = 3
    /\ Len(out.found) > 0 /\ Len(out.found) < 650

\* The first floor(L/2) symbols of s equal the remaining symbols truncated to
\* floor(L/2) symbols
HalfDuplicate(s) ==
    LET h == Len(s) \div 2
    IN SubSeq(s, 1, h) = SubSeq(s, h + 1, 2 * h)

\* C11: for every key length L >= 1, odd or even, a key of the product is built
\* and tested exactly when its first floor(L/2) symbols differ from the remaining
\* symbols truncated to floor(L/2) symbols.
C11_FilterPrunesHalfDuplicates ==
    (call.fn = "keyFilter" /\ call.keylength >= 1) =>
        (call.kept <=> ~HalfDuplicate(call.s))

\* C12: the substrings of the stream-mode ciphertext divided in stream mode equal
\* the substrings of the classic-mode ciphertext of the same plaintext and key
\* divided in classic mode, for n = the key's length, also after the drift wrapped.
C12_Dedrift ==
    call.fn = "dedrift" =>
        /\ call.stream = call.classic
        /\ Len(call.ptext) >= Len(call.material) => call.stream.raised = "none"

\* A plaintext longer than 26 blocks of the key, so that the drift wrapped, whose
\* two ciphertexts differ
C12_Witness ==
    /\ call.fn = "dedrift"
    /\ Len(call.ptext) > VigkeyM * Len(call.material)
    /\ call.Cs # call.Cc
    /\ call.Cs[Len(call.ptext)] = call.Cc[Len(call.ptext)]
    /\ call.stream.raised = "none"
    /\ Len(call.stream.value) = Len(call.material)

\* C13: in a running session the stored substrings are those of the ciphertext
\* divided into len(VIGDIV) substrings under the current mode.
C13_SubstringsFresh ==
    status = "running" =>
        VIGDIV = divideIntoSubstrings(VIGCI, Len(VIGDIV), STREAM_MODE, 26).value

=============================================================================
